---- MODULE Spec2Model ----
(***************************************************************************)
(* Model of unstructured/ingest/cli/interfaces.py: the option-registration *)
(* mixin (CliMixin.add_params), the typed option parsers (FileOrJson,      *)
(* DelimitedString) and the from_dict reconciliation of the retry,         *)
(* embedding, chunking and permissions configuration classes.              *)
(*                                                                         *)
(* Python str values are TLA+ strings (Len, SubSeq and \o work on them).    *)
(* The other Python values a flag can carry are written as the strings     *)
(* "None", "False", "True", "0", "3", "0.0", "2.5".                        *)
(***************************************************************************)
EXTENDS Integers, Sequences, FiniteSets, TLC

VARIABLES
    cmd_params,     \* cmd.params: the command's option list (each option = its opts)
    ap_before,      \* cmd.params when the last add_params call started
    ap_args,        \* the params argument of the last add_params call
    ap_result,      \* outcome of the last add_params call
    kvs,            \* the flat mapping handed to every from_dict
    kvs0,           \* that mapping as the CLI framework built it
    retry_result,   \* what CliRetryStrategyConfig.from_dict returned
    embedding_result,
    chunking_result,
    permissions_result,
    files,          \* file system: absolute paths of regular files
    symlinks,       \* file system: symbolic links, path -> target
    allow_raw_str,  \* FileOrJson.allow_raw_str
    foj_value,      \* the value given to FileOrJson.convert
    foj_result,     \* what FileOrJson.convert did
    delimiter,      \* DelimitedString.delimiter
    choices,        \* DelimitedString.choices
    ds_value,       \* the value given to DelimitedString.convert
    ds_result       \* what DelimitedString.convert did

apVars == <<cmd_params, ap_before, ap_args, ap_result>>
cfgVars == <<kvs, kvs0, retry_result, embedding_result, chunking_result, permissions_result>>
fojVars == <<files, symlinks, allow_raw_str, foj_value, foj_result>>
dsVars == <<delimiter, choices, ds_value, ds_result>>
vars == <<apVars, cfgVars, fojVars, dsVars>>

\* Value of the variables of a component that a specification does not run.
Idle == "idle"

ApIdle == cmd_params = Idle /\ ap_before = Idle /\ ap_args = Idle /\ ap_result = Idle
CfgIdle ==
    /\ kvs = Idle /\ kvs0 = Idle /\ retry_result = Idle /\ embedding_result = Idle
    /\ chunking_result = Idle /\ permissions_result = Idle
FojIdle ==
    /\ files = Idle /\ symlinks = Idle /\ allow_raw_str = Idle
    /\ foj_value = Idle /\ foj_result = Idle
DsIdle == delimiter = Idle /\ choices = Idle /\ ds_value = Idle /\ ds_result = Idle

\* Sequences over S of length lo..hi.
SeqsOf(S, lo, hi) == UNION {[1..n -> S] : n \in lo..hi}

\* Python's `x in list`.
InList(x, list) == \E i \in 1..Len(list) : list[i] = x

(***************************************************************************)
(* CliMixin.add_params                                                     *)
(***************************************************************************)

\* Bounds of the add_params model.
MaxParams == 2      \* options handed to one add_params call
MaxCmdParams == 2   \* add_params is called while cmd.params is at most this long

\* An option is modelled by its opts list (click keeps the declared order and
\* does not remove a spelling declared twice).  The options that can be
\* registered: one and two spellings, sharing spellings in every position.
Options == {
    <<"-v", "--verbose">>,
    <<"--verbose">>,
    <<"-v">>,
    <<"--recursive">>,
    <<"--recursive", "-v">>,
    <<"-v", "-v">> }
CmdName == "ingest"

NoError == [exc |-> "none", opt |-> "", cmd |-> ""]

\* existing_opts = []; for param in cmd.params: existing_opts.extend(param.opts)
RECURSIVE ExistingOpts(_)
ExistingOpts(params) ==
    IF params = <<>> THEN <<>>
    ELSE params[1] \o ExistingOpts(Tail(params))

\* The inner loop of add_params over param.opts from index j on, with the
\* existing_opts and cmd.params it has built so far.
RECURSIVE AddOptsNoRecord(_, _, _, _)
AddOptsNoRecord(existing, cmdps, param, j) ==
    IF j > Len(param) THEN [existing |-> existing, params |-> cmdps, error |-> NoError]
    ELSE IF InList(param[j], existing)
    THEN [existing |-> existing, params |-> cmdps,
          error |-> [exc |-> "ValueError", opt |-> param[j], cmd |-> CmdName]]
    ELSE AddOptsNoRecord(existing, Append(cmdps, param), param, j + 1)

RECURSIVE AddOpts(_, _, _, _)
AddOpts(existing, cmdps, param, j) ==
    IF j > Len(param) THEN [existing |-> existing, params |-> cmdps, error |-> NoError]
    ELSE IF InList(param[j], existing)
    THEN [existing |-> existing, params |-> cmdps,
          error |-> [exc |-> "ValueError", opt |-> param[j], cmd |-> CmdName]]
    ELSE AddOpts(Append(existing, param[j]), Append(cmdps, param), param, j + 1)

\* The outer loop of add_params over params from index i on; the raise leaves
\* the loop with cmd.params as built so far.
RECURSIVE AddParamsFrom(_, _, _, _)
AddParamsFrom(existing, cmdps, params, i) ==
    IF i > Len(params) THEN [params |-> cmdps, error |-> NoError]
    ELSE LET r == AddOpts(existing, cmdps, params[i], 1)
         IN  IF r.error # NoError THEN [params |-> r.params, error |-> r.error]
             ELSE AddParamsFrom(r.existing, r.params, params, i + 1)

add_params(params) ==
    /\ Len(cmd_params) <= MaxCmdParams
    /\ LET r == AddParamsFrom(ExistingOpts(cmd_params), cmd_params, params, 1)
       IN  /\ cmd_params' = r.params
           /\ ap_result' = r.error
    /\ ap_before' = cmd_params
    /\ ap_args' = params
    /\ UNCHANGED <<cfgVars, fojVars, dsVars>>

AddParamsCall == \E params \in SeqsOf(Options, 0, MaxParams) : add_params(params)

\* A command starts with its built-in options.
InitParams ==
    /\ cmd_params \in {<<>>, <<(<<"--recursive">>)>>, <<(<<"-v", "--verbose">>)>>}
    /\ ap_before = <<>>
    /\ ap_args = <<>>
    /\ ap_result = [exc |-> "not called", opt |-> "", cmd |-> ""]
    /\ CfgIdle /\ FojIdle /\ DsIdle

NextParams == AddParamsCall

SpecParams == InitParams /\ [][NextParams]_vars

\* All flag spellings of a list of options, in order.
Called == ap_result.exc # "not called"
NewOpts == ExistingOpts(ap_args)
OldOpts == ExistingOpts(ap_before)
\* Position k of the new spellings repeats a spelling registered before it.
Collides(k) ==
    \/ InList(NewOpts[k], OldOpts)
    \/ \E m \in 1..(k - 1) : NewOpts[m] = NewOpts[k]
Collisions == {k \in 1..Len(NewOpts) : Collides(k)}

\* C1: an add_params call succeeds exactly when no flag spelling of the new
\* options equals one already on the command or one earlier in the same list;
\* otherwise it fails with the error naming the first colliding flag and the
\* command.  Holds after any sequence of earlier calls, failed ones included.
C1_DuplicateOption ==
    Called =>
        IF Collisions = {}
        THEN ap_result = NoError
        ELSE LET k == CHOOSE c \in Collisions : \A d \in Collisions : c <= d
             IN  ap_result = [exc |-> "ValueError", opt |-> NewOpts[k], cmd |-> CmdName]

\* A call failed on a spelling that an earlier option of the same list brought.
C1_Witness ==
    /\ Called
    /\ ap_before # <<>>
    /\ ap_result.exc = "ValueError"
    /\ ~InList(ap_result.opt, OldOpts)
    /\ Len(ap_args) = 2

\* Number of flag spellings of the first n options of the last call.
RECURSIVE OptsBefore(_)
OptsBefore(n) == IF n = 0 THEN 0 ELSE OptsBefore(n - 1) + Len(ap_args[n])
\* Index in ap_args of the option that spelling position k belongs to.
OptionAt(k) == CHOOSE i \in 1..Len(ap_args) : OptsBefore(i - 1) < k /\ k <= OptsBefore(i)
\* The option of the last call on which it failed.
FailedAt == OptionAt(CHOOSE c \in Collisions : \A d \in Collisions : c <= d)

\* C11 (as claimed): after a successful add_params call cmd.params is the list
\* before the call followed by the given options in order, each exactly once,
\* however many flag spellings an option has.
C11_AppendedOnce ==
    (Called /\ ap_result = NoError) => cmd_params = ap_before \o ap_args

\* C12 (as claimed): when add_params fails on an option, that option has not
\* been appended: cmd.params is what the options given before it leave, for
\* one or several spellings and whichever spelling collides with a spelling
\* registered before that option.
C12_CheckBeforeAppend ==
    (/\ Called
     /\ ap_result.exc = "ValueError"
     /\ InList(ap_result.opt, ExistingOpts(ap_before \o SubSeq(ap_args, 1, FailedAt - 1))))
        =>
        cmd_params =
            AddParamsFrom(ExistingOpts(ap_before), ap_before,
                          SubSeq(ap_args, 1, FailedAt - 1), 1).params

(***************************************************************************)
(* from_dict of the retry, embedding, chunking and permissions classes     *)
(***************************************************************************)

\* Bound: number of keys in the flat mapping.
MaxKeys == 3

\* Keys of the flat mapping and the values the CLI can put under each.
ValuesOf(k) ==
    CASE k = "max_retries" -> {"None", "0", "3"}
      [] k = "max_retry_time" -> {"None", "0.0", "2.5"}
      [] k = "embedding_provider" -> {"None", "", "langchain-openai"}
      [] k = "embedding_api_key" -> {"None", "sk-1"}
      [] k = "embedding_aws_region" -> {"us-west-2"}
      [] k = "chunk_elements" -> {"False", "True"}
      [] k = "chunking_strategy" -> {"None", "basic", "by_title"}
      [] k = "chunk_max_characters" -> {"None", "500"}
      [] k = "chunk_chunking_strategy" -> {"None", "by_title"}
      [] k = "permissions_application_id" -> {"None", "", "app"}
      [] k = "permissions_client_cred" -> {"None", "cred"}
      [] k = "permissions_tenant" -> {"None", "tenant"}
      [] k = "strategy" -> {"auto"}
Keys == {
    "max_retries", "max_retry_time",
    "embedding_provider", "embedding_api_key", "embedding_aws_region",
    "chunk_elements", "chunking_strategy", "chunk_max_characters",
    "chunk_chunking_strategy",
    "permissions_application_id", "permissions_client_cred", "permissions_tenant",
    "strategy" }
Values == UNION {ValuesOf(k) : k \in Keys}
Mappings ==
    UNION {{m \in [S -> Values] : \A k \in S : m[k] \in ValuesOf(k)} :
           S \in {T \in SUBSET Keys : Cardinality(T) <= MaxKeys}}

\* Python truthiness of a value: `if v`, `not v`, any(), all().
Truthy(v) == v \notin {"None", "False", "0", "0.0", ""}
\* dict.get(k): None when the key is missing.
Get(d, k) == IF k \in DOMAIN d THEN d[k] ELSE "None"
\* dict after d.pop(k, None).
Pop(d, k) == [x \in DOMAIN d \ {k} |-> d[x]]
\* str.startswith and k[len(prefix):].
StartsWith(k, prefix) == Len(k) >= Len(prefix) /\ SubSeq(k, 1, Len(prefix)) = prefix
StripPrefix(k, prefix) == SubSeq(k, Len(prefix) + 1, Len(k))
\* {k[len(prefix):]: v for k, v in d.items() if k.startswith(prefix)}
StripKeys(d, prefix) ==
    [n \in {StripPrefix(k, prefix) : k \in {x \in DOMAIN d : StartsWith(x, prefix)}}
        |-> d[prefix \o n]]

\* Results of from_dict: None, or the record super().from_dict builds from the
\* field set it is handed, or an exception.
Pending == [kind |-> "pending"]
Absent == [kind |-> "None"]
BaseFromDict(d) == [kind |-> "record", kvs |-> d]

\* fields(cls) of RetryStrategyConfig.
RetryFields == {"max_retries", "max_retry_time"}

RetryFromDict(d) ==
    LET field_names == {f \in RetryFields : f \in DOMAIN d}
        field_values == {n \in field_names : Truthy(Get(d, n))}
    IN  IF field_values = {} THEN Absent ELSE BaseFromDict(d)

EmbeddingFromDictAnyKey(d) ==
    LET new_kvs == StripKeys(d, "embedding_")
    IN  IF DOMAIN new_kvs = {} THEN Absent
        ELSE IF \A n \in DOMAIN new_kvs : ~Truthy(new_kvs[n]) THEN Absent
        ELSE BaseFromDict(new_kvs)

EmbeddingFromDict(d) ==
    LET new_kvs == StripKeys(d, "embedding_")
    IN  IF DOMAIN new_kvs = {} THEN Absent
        ELSE IF ~Truthy(Get(new_kvs, "provider")) THEN Absent
        ELSE BaseFromDict(new_kvs)

\* The two flags popped from the caller's mapping itself (no copy).
ChunkingOptionsInPlace(d) ==
    LET options == Pop(Pop(d, "chunk_elements"), "chunking_strategy")
    IN  [options |-> options, kvs |-> options]

\* Lines 566-568: the dict the two flags are popped from, and the caller's
\* mapping afterwards.
ChunkingOptions(d) ==
    LET options == d  \* kvs.copy()
    IN  [options |-> Pop(Pop(options, "chunk_elements"), "chunking_strategy"),
         kvs |-> d]

\* dict(iter_kv_pairs()): the strategy pair first, then the chunk_ pairs; a
\* later pair with the same key replaces the earlier one.
ChunkingNewKvs(options, chunk_elements, chunking_strategy) ==
    LET collected == StripKeys(options, "chunk_")
        first == IF Truthy(chunking_strategy) THEN chunking_strategy ELSE "by_title"
    IN  [n \in DOMAIN collected \cup {"chunking_strategy"} |->
            IF n \in DOMAIN collected THEN collected[n] ELSE first]

\* Without the early return of line 570-571: only an empty field set is absent.
ChunkingFromDictNoEarlyReturn(d) ==
    LET o == ChunkingOptions(d)
        chunk_elements == Get(d, "chunk_elements")
        chunking_strategy == Get(d, "chunking_strategy")
        collected == StripKeys(o.options, "chunk_")
        new_kvs == IF ~Truthy(chunk_elements) /\ ~Truthy(chunking_strategy)
                   THEN collected
                   ELSE ChunkingNewKvs(o.options, chunk_elements, chunking_strategy)
    IN  [result |-> IF DOMAIN new_kvs = {} THEN Absent ELSE BaseFromDict(new_kvs),
         kvs |-> o.kvs]

ChunkingFromDict(d) ==
    LET o == ChunkingOptions(d)
        chunk_elements == Get(d, "chunk_elements")
        chunking_strategy == Get(d, "chunking_strategy")
    IN  IF ~Truthy(chunk_elements) /\ ~Truthy(chunking_strategy)
        THEN [result |-> Absent, kvs |-> o.kvs]
        ELSE LET new_kvs == ChunkingNewKvs(o.options, chunk_elements, chunking_strategy)
             IN  [result |-> IF DOMAIN new_kvs = {} THEN Absent ELSE BaseFromDict(new_kvs),
                  kvs |-> o.kvs]

PermissionFlags ==
    <<"--permissions-application-id", "--permissions-client-cred", "--permissions-tenant">>
PermissionKeys ==
    <<"permissions_application_id", "permissions_client_cred", "permissions_tenant">>

\* The check made on the first value alone.
PermissionsFromDictFirstOnly(d) ==
    LET permission_values == [i \in 1..3 |-> Get(d, PermissionKeys[i])]
        all == \A i \in 1..3 : Truthy(permission_values[i])
    IN  IF Truthy(permission_values[1]) /\ ~all
        THEN [kind |-> "error", exc |-> "ValueError", flags |-> PermissionFlags]
        ELSE LET new_kvs == StripKeys(d, "permissions_")
             IN  IF DOMAIN new_kvs = {} THEN Absent ELSE BaseFromDict(new_kvs)

PermissionsFromDict(d) ==
    LET permission_values == [i \in 1..3 |-> Get(d, PermissionKeys[i])]
        any == \E i \in 1..3 : Truthy(permission_values[i])
        all == \A i \in 1..3 : Truthy(permission_values[i])
    IN  IF any /\ ~all
        THEN [kind |-> "error", exc |-> "ValueError", flags |-> PermissionFlags]
        ELSE LET new_kvs == StripKeys(d, "permissions_")
             IN  IF DOMAIN new_kvs = {} THEN Absent ELSE BaseFromDict(new_kvs)

retry_from_dict ==
    /\ retry_result' = RetryFromDict(kvs)
    /\ UNCHANGED <<kvs, kvs0, embedding_result, chunking_result, permissions_result>>
    /\ UNCHANGED <<apVars, fojVars, dsVars>>

embedding_from_dict ==
    /\ embedding_result' = EmbeddingFromDict(kvs)
    /\ UNCHANGED <<kvs, kvs0, retry_result, chunking_result, permissions_result>>
    /\ UNCHANGED <<apVars, fojVars, dsVars>>

chunking_from_dict ==
    /\ LET r == ChunkingFromDict(kvs)
       IN  /\ chunking_result' = r.result
           /\ kvs' = r.kvs
    /\ UNCHANGED <<kvs0, retry_result, embedding_result, permissions_result>>
    /\ UNCHANGED <<apVars, fojVars, dsVars>>

permissions_from_dict ==
    /\ permissions_result' = PermissionsFromDict(kvs)
    /\ UNCHANGED <<kvs, kvs0, retry_result, embedding_result, chunking_result>>
    /\ UNCHANGED <<apVars, fojVars, dsVars>>

InitConfig ==
    /\ kvs \in Mappings
    /\ kvs0 = kvs
    /\ retry_result = Pending
    /\ embedding_result = Pending
    /\ chunking_result = Pending
    /\ permissions_result = Pending
    /\ ApIdle /\ FojIdle /\ DsIdle

NextConfig ==
    \/ retry_from_dict
    \/ embedding_from_dict
    \/ chunking_from_dict
    \/ permissions_from_dict

SpecConfig == InitConfig /\ [][NextConfig]_vars

\* A flag is set: present in the mapping with a value that is not false/empty.
IsSet(d, k) == k \in DOMAIN d /\ Truthy(d[k])
\* A flag is given a value: present in the mapping with a value other than None.
IsGiven(d, k) == k \in DOMAIN d /\ d[k] # "None"
\* The record r holds exactly the keys of d that start with prefix, stripped.
HoldsStripped(r, d, prefix) ==
    /\ \A k \in DOMAIN d :
        StartsWith(k, prefix) =>
            /\ StripPrefix(k, prefix) \in DOMAIN r
            /\ r[StripPrefix(k, prefix)] = d[k]
    /\ \A n \in DOMAIN r : (prefix \o n) \in DOMAIN d

\* C2: with neither chunk_elements nor chunking_strategy set, chunking
\* from_dict returns the absence signal whatever chunk_ tuning keys are there.
C2_NoStrategyAbsent ==
    (/\ chunking_result # Pending
     /\ ~IsSet(kvs0, "chunk_elements")
     /\ ~IsSet(kvs0, "chunking_strategy"))
        => chunking_result = Absent

\* chunk_max_characters given, the legacy flag false, no strategy: absent.
C2_Witness ==
    /\ chunking_result = Absent
    /\ IsSet(kvs0, "chunk_max_characters")
    /\ "chunk_elements" \in DOMAIN kvs0
    /\ ~IsSet(kvs0, "chunk_elements")
    /\ ~IsSet(kvs0, "chunking_strategy")

C4_PartialPermissionsFail ==
    (/\ permissions_result # Pending
     /\ \E i \in 1..3 : IsSet(kvs0, PermissionKeys[i])
     /\ \E i \in 1..3 : ~IsSet(kvs0, PermissionKeys[i]))
        => permissions_result =
            [kind |-> "error", exc |-> "ValueError", flags |-> PermissionFlags]

\* Two of the three set, the first one missing.
C4_Witness ==
    /\ permissions_result.kind = "error"
    /\ ~IsSet(kvs0, "permissions_application_id")
    /\ IsSet(kvs0, "permissions_client_cred")
    /\ IsSet(kvs0, "permissions_tenant")

\* C5 (as claimed): all three permissions fields set gives a record holding
\* them under the stripped names; none set (keys missing, or present with no
\* value) gives the absence signal.
C5_PermissionsAllOrNone ==
    permissions_result # Pending =>
        /\ (\A i \in 1..3 : IsSet(kvs0, PermissionKeys[i])) =>
            /\ permissions_result.kind = "record"
            /\ \A i \in 1..3 :
                LET n == StripPrefix(PermissionKeys[i], "permissions_")
                IN  /\ n \in DOMAIN permissions_result.kvs
                    /\ permissions_result.kvs[n] = kvs0[PermissionKeys[i]]
        /\ (\A i \in 1..3 : ~IsSet(kvs0, PermissionKeys[i])) =>
            permissions_result = Absent

\* C6: embedding from_dict is absent whenever embedding_provider is not set;
\* with the provider set it is a record of exactly the embedding_ keys,
\* prefix stripped.
C6_EmbeddingProvider ==
    embedding_result # Pending =>
        IF ~IsSet(kvs0, "embedding_provider")
        THEN embedding_result = Absent
        ELSE /\ embedding_result.kind = "record"
             /\ HoldsStripped(embedding_result.kvs, kvs0, "embedding_")

\* The API key alone: absent.
C6_Witness ==
    /\ embedding_result = Absent
    /\ IsSet(kvs0, "embedding_api_key")
    /\ "embedding_provider" \in DOMAIN kvs0

\* C7 (as claimed): retry from_dict is absent exactly when neither max_retries
\* nor max_retry_time is given a value; a given value, 0 included, yields a
\* record carrying it.
C7_RetryAbsentIff ==
    retry_result # Pending =>
        /\ retry_result = Absent <=> \A f \in RetryFields : ~IsGiven(kvs0, f)
        /\ \A f \in RetryFields :
            IsGiven(kvs0, f) =>
                /\ retry_result.kind = "record"
                /\ retry_result.kvs[f] = kvs0[f]

\* C10: the flat mapping is the same after any sequence of reconciliations,
\* whatever they returned, so every concern's result is the one its from_dict
\* gives on the mapping as first built, in any order of the calls.
C10_MappingUnchanged ==
    /\ kvs = kvs0
    /\ retry_result # Pending => retry_result = RetryFromDict(kvs0)
    /\ embedding_result # Pending => embedding_result = EmbeddingFromDict(kvs0)
    /\ chunking_result # Pending => chunking_result = ChunkingFromDict(kvs0).result
    /\ permissions_result # Pending => permissions_result = PermissionsFromDict(kvs0)

\* All four have run: chunking popped both of its flags and built a record,
\* permissions raised.
C10_Witness ==
    /\ retry_result # Pending
    /\ embedding_result # Pending
    /\ chunking_result.kind = "record"
    /\ permissions_result.kind = "error"
    /\ {"chunk_elements", "chunking_strategy"} \subseteq DOMAIN kvs0

\* The strategy from_dict resolves from the two flags of the mapping d.
ResolvedStrategy(d) ==
    IF IsSet(d, "chunking_strategy") THEN d["chunking_strategy"] ELSE "by_title"
\* The chunk_ tuning keys of d: every chunk_ key but the two flags.
TuningKeys(d) ==
    {k \in DOMAIN d \ {"chunk_elements", "chunking_strategy"} : StartsWith(k, "chunk_")}

RECURSIVE StringsOf(_, _)
StringsOf(alphabet, n) ==
    IF n = 0 THEN {""}
    ELSE LET shorter == StringsOf(alphabet, n - 1)
         IN  shorter \cup {s \o c : s \in shorter, c \in alphabet}

CharAt(s, i) == SubSeq(s, i, i)

\* str.find(sep): the first index at which sep occurs in s, 0 when none.
Find(s, sep) ==
    LET hits == {i \in 1..(Len(s) - Len(sep) + 1) : SubSeq(s, i, i + Len(sep) - 1) = sep}
    IN  IF hits = {} THEN 0 ELSE CHOOSE i \in hits : \A j \in hits : i <= j

\* str.split(sep), sep not empty.
RECURSIVE Split(_, _)
Split(s, sep) ==
    LET i == Find(s, sep)
    IN  IF i = 0 THEN <<s>>
        ELSE <<SubSeq(s, 1, i - 1)>> \o Split(SubSeq(s, i + Len(sep), Len(s)), sep)

\* sep.join(parts)
RECURSIVE Join(_, _)
Join(parts, sep) ==
    IF parts = <<>> THEN ""
    ELSE IF Len(parts) = 1 THEN parts[1]
    ELSE parts[1] \o sep \o Join(Tail(parts), sep)

Whitespace == {" "}

\* str.strip()
RECURSIVE LStrip(_)
LStrip(s) ==
    IF Len(s) > 0 /\ CharAt(s, 1) \in Whitespace THEN LStrip(SubSeq(s, 2, Len(s))) ELSE s
RECURSIVE RStrip(_)
RStrip(s) ==
    IF Len(s) > 0 /\ CharAt(s, Len(s)) \in Whitespace
    THEN RStrip(SubSeq(s, 1, Len(s) - 1)) ELSE s
Strip(s) == LStrip(RStrip(s))

(***************************************************************************)
(* FileOrJson.convert                                                      *)
(***************************************************************************)

\* Bound: length of the value strings drawn over FojAlphabet.
MaxValueLen == 3

Home == "/h"
Cwd == "/w"
FojAlphabet == {"a", "1", "[", "]", "~"}
\* Values with a directory part, next to all short strings over the alphabet.
PathValues == {"/a", "~/a", "/w/1", "/w/[1]"}
FojValues == StringsOf(FojAlphabet, MaxValueLen) \cup PathValues
\* Paths at which the file system may hold a regular file.
FileCandidates == {"/w/1", "/w/[1]", "/w/a", "/h/a", "/a"}
\* Symbolic links the file system may hold.
LinkCandidates == {"/w/11", "/w/a"}

\* os.path.expanduser: "~" and "~/..." expand to the home directory; "~name"
\* of a user the system does not know is returned unchanged.
ExpandUser(path) ==
    IF ~StartsWith(path, "~") THEN path
    ELSE LET f == Find(SubSeq(path, 2, Len(path)), "/")
             i == IF f = 0 THEN Len(path) + 1 ELSE f + 1
         IN  IF i # 2 THEN path
             ELSE Home \o SubSeq(path, i, Len(path))

\* os.path.normpath on the components of a path.
RECURSIVE NormComps(_, _)
NormComps(comps, acc) ==
    IF comps = <<>> THEN acc
    ELSE LET c == comps[1]
         IN  IF c \in {"", "."} THEN NormComps(Tail(comps), acc)
             ELSE IF c = ".." /\ acc # <<>> THEN
                NormComps(Tail(comps), SubSeq(acc, 1, Len(acc) - 1))
             ELSE IF c = ".." THEN NormComps(Tail(comps), acc)
             ELSE NormComps(Tail(comps), Append(acc, c))

\* os.path.abspath: join with the working directory unless absolute, then
\* normalise.  (Every path here is absolute after the join.)
AbsPath(path) ==
    LET joined == IF StartsWith(path, "/") THEN path ELSE Cwd \o "/" \o path
    IN  "/" \o Join(NormComps(Split(joined, "/"), <<>>), "/")

\* os.path.isfile follows symbolic links.
IsFile(path) ==
    \/ path \in files
    \/ path \in DOMAIN symlinks /\ symlinks[path] \in files

\* str(Path(full_path).resolve())
Resolve(path) == IF path \in DOMAIN symlinks THEN symlinks[path] ELSE path

\* json.loads on the texts the alphabet can spell: integers and (nested)
\* arrays; ok = FALSE stands for JSONDecodeError.
Digits(s) == Len(s) > 0 /\ \A i \in 1..Len(s) : CharAt(s, i) = "1"
RECURSIVE IntOf(_)
IntOf(s) == IF s = "" THEN 0 ELSE 10 * IntOf(SubSeq(s, 1, Len(s) - 1)) + 1
RECURSIVE JsonLoads(_)
JsonLoads(s) ==
    IF Digits(s) THEN [ok |-> TRUE, value |-> [type |-> "int", v |-> IntOf(s)]]
    ELSE IF Len(s) >= 2 /\ CharAt(s, 1) = "[" /\ CharAt(s, Len(s)) = "]"
    THEN LET inner == SubSeq(s, 2, Len(s) - 1)
         IN  IF inner = "" THEN [ok |-> TRUE, value |-> [type |-> "list", v |-> <<>>]]
             ELSE LET e == JsonLoads(inner)
                  IN  IF e.ok
                      THEN [ok |-> TRUE, value |-> [type |-> "list", v |-> <<e.value>>]]
                      ELSE [ok |-> FALSE, value |-> [type |-> "none", v |-> 0]]
    ELSE [ok |-> FALSE, value |-> [type |-> "none", v |-> 0]]

FojFail(value) ==
    [kind |-> "fail", value |-> value, json_attempted |-> TRUE]

\* JSON parsing tried before the file check.
FileOrJsonConvertJsonFirst(value, raw) ==
    LET full_path == AbsPath(ExpandUser(value))
        parsed == JsonLoads(value)
    IN  IF parsed.ok
        THEN [kind |-> "json", value |-> parsed.value, json_attempted |-> TRUE]
        ELSE IF IsFile(full_path)
        THEN [kind |-> "path", value |-> Resolve(full_path), json_attempted |-> TRUE]
        ELSE IF raw
        THEN [kind |-> "raw", value |-> value, json_attempted |-> TRUE]
        ELSE FojFail(value)

\* FileOrJson.convert on a str value.
FileOrJsonConvert(value, raw) ==
    LET full_path == AbsPath(ExpandUser(value))
    IN  IF IsFile(full_path)
        THEN [kind |-> "path", value |-> Resolve(full_path), json_attempted |-> FALSE]
        ELSE LET parsed == JsonLoads(value)
             IN  IF parsed.ok
                 THEN [kind |-> "json", value |-> parsed.value, json_attempted |-> TRUE]
                 ELSE IF raw
                 THEN [kind |-> "raw", value |-> value, json_attempted |-> TRUE]
                 ELSE FojFail(value)

file_or_json_convert ==
    /\ foj_result = Pending
    /\ foj_result' = FileOrJsonConvert(foj_value, allow_raw_str)
    /\ UNCHANGED <<files, symlinks, allow_raw_str, foj_value>>
    /\ UNCHANGED <<apVars, cfgVars, dsVars>>

InitFileOrJson ==
    /\ files \in SUBSET FileCandidates
    /\ symlinks \in UNION {[L -> {"/h/a", "/w/1"}] : L \in SUBSET (LinkCandidates \ files)}
    /\ allow_raw_str \in BOOLEAN
    /\ foj_value \in FojValues
    /\ foj_result = Pending
    /\ ApIdle /\ CfgIdle /\ DsIdle

NextFileOrJson == file_or_json_convert

SpecFileOrJson == InitFileOrJson /\ [][NextFileOrJson]_vars

\* The value names an existing file: what os.path.isfile says of the expanded,
\* absolute path.
NamesExistingFile(value) == IsFile(AbsPath(ExpandUser(value)))

\* C8: FileOrJson.convert on a string decides in a fixed order: an existing
\* file gives its resolved absolute path with no JSON parsing attempted (also
\* for a string that is valid JSON); else valid JSON gives the parsed value;
\* else the raw string when allow_raw_str; else it fails.
C8_FileThenJsonThenRaw ==
    foj_result # Pending =>
        IF NamesExistingFile(foj_value)
        THEN /\ foj_result.kind = "path"
             /\ foj_result.value = Resolve(AbsPath(ExpandUser(foj_value)))
             /\ ~foj_result.json_attempted
        ELSE IF JsonLoads(foj_value).ok
        THEN foj_result.kind = "json" /\ foj_result.value = JsonLoads(foj_value).value
        ELSE IF allow_raw_str
        THEN foj_result.kind = "raw" /\ foj_result.value = foj_value
        ELSE foj_result.kind = "fail" /\ foj_result.value = foj_value

\* A relative name that is valid JSON and an existing file: the path is returned.
C8_Witness ==
    /\ foj_result # Pending
    /\ foj_result.kind = "path"
    /\ JsonLoads(foj_value).ok
    /\ ~StartsWith(foj_value, "/")

(***************************************************************************)
(* DelimitedString.convert                                                 *)
(***************************************************************************)

\* Bounds: length of a delimited string, and of a list given as the value.
MaxDsLen == 3
MaxListLen == 2

DsAlphabet == {" ", ",", "+", "a", "b"}
\* Elements of a list value (str(v) of a str is v itself).
ListElements == {"a", " a", "b ", "ab", "", " "}
DsValues ==
    {[type |-> "str", str |-> x] : x \in StringsOf(DsAlphabet, MaxDsLen)}
        \cup {[type |-> "list", list |-> l] : l \in SeqsOf(ListElements, 0, MaxListLen)}
ChoiceLists == {<<>>, <<"a">>, <<"a", "b">>, <<"a", "">>, <<"a b", "ab">>}

\* Lines 95-98: the trimmed elements.
SplitValue(value, delim) ==
    LET parts == IF value.type = "list" THEN value.list ELSE Split(value.str, delim)
    IN  [i \in 1..Len(parts) |-> Strip(parts[i])]

DsFail(s, chs) ==
    [kind |-> "fail", value |-> s, choices |-> chs,
     form |-> IF Len(chs) = 1 THEN "is not" ELSE "is not one of"]

\* Membership tested on the element as split, before trimming.
RECURSIVE CheckChoicesUntrimmed(_, _, _, _)
CheckChoicesUntrimmed(value, delim, chs, i) ==
    LET parts == IF value.type = "list" THEN value.list ELSE Split(value.str, delim)
        split == SplitValue(value, delim)
    IN  IF i > Len(split) THEN [kind |-> "ok", value |-> split]
        ELSE IF ~InList(parts[i], chs) THEN DsFail(split[i], chs)
        ELSE CheckChoicesUntrimmed(value, delim, chs, i + 1)

\* Lines 102-113: the loop over split from index i on; self.fail raises.
RECURSIVE CheckChoices(_, _, _, _)
CheckChoices(value, delim, chs, i) ==
    LET split == SplitValue(value, delim)
    IN  IF i > Len(split) THEN [kind |-> "ok", value |-> split]
        ELSE IF ~InList(split[i], chs) THEN DsFail(split[i], chs)
        ELSE CheckChoices(value, delim, chs, i + 1)

DelimitedStringConvert(value, delim, chs) ==
    IF chs = <<>> THEN [kind |-> "ok", value |-> SplitValue(value, delim)]
    ELSE CheckChoices(value, delim, chs, 1)

delimited_string_convert ==
    /\ ds_result = Pending
    /\ ds_result' = DelimitedStringConvert(ds_value, delimiter, choices)
    /\ UNCHANGED <<delimiter, choices, ds_value>>
    /\ UNCHANGED <<apVars, cfgVars, fojVars>>

InitDelimited ==
    /\ delimiter \in {",", "+", ", "}
    /\ choices \in ChoiceLists
    /\ ds_value \in DsValues
    /\ ds_result = Pending
    /\ ApIdle /\ CfgIdle /\ FojIdle

NextDelimited == delimited_string_convert

SpecDelimited == InitDelimited /\ [][NextDelimited]_vars

\* The elements of the value: the list's own, or the pieces between delimiters.
Elements == IF ds_value.type = "list" THEN ds_value.list ELSE Split(ds_value.str, delimiter)
Trimmed == [i \in 1..Len(Elements) |-> Strip(Elements[i])]
Offending == {i \in 1..Len(Trimmed) : \A c \in 1..Len(choices) : choices[c] # Trimmed[i]}

\* C9: with a choice set configured, convert fails naming the first trimmed
\* element outside the set (and the set), and otherwise returns the trimmed
\* elements in input order; membership is tested on the trimmed element.
C9_ChoicesChecked ==
    (ds_result # Pending /\ choices # <<>>) =>
        IF Offending = {}
        THEN ds_result = [kind |-> "ok", value |-> Trimmed]
        ELSE LET i == CHOOSE x \in Offending : \A y \in Offending : x <= y
             IN  /\ ds_result.kind = "fail"
                 /\ ds_result.value = Trimmed[i]
                 /\ ds_result.choices = choices

\* A delimited string with padded elements, two of them outside the set, the
\* first of which is reported.
C9_Witness ==
    /\ ds_result # Pending
    /\ choices # <<>>
    /\ ds_value.type = "str"
    /\ ds_result.kind = "fail"
    /\ Cardinality(Offending) = 2
    /\ \E i \in Offending : Trimmed[i] # ds_result.value
    /\ \E i \in 1..Len(Elements) : Elements[i] # Trimmed[i]

====
